---------------------------- MODULE Spec2Model ----------------------------
(***************************************************************************)
(* A model of the chat backend of src/backend/server.js: the chat-id       *)
(* derivation, the Socket.IO relay (presence directory, rooms, message     *)
(* broadcast, AI turn) and the REST endpoints.                             *)
(*                                                                         *)
(* Identifiers (uid, phone, senderId, receiverId, chat id) are JavaScript  *)
(* strings.  A string is modelled as a sequence of one-character strings,  *)
(* ordered by UTF-16 code unit as Array.prototype.sort orders them.        *)
(***************************************************************************)
EXTENDS Integers, Sequences, FiniteSets

VARIABLES
    \* ---- chat-id derivation (the pure function, applied to drawn inputs)
    derived,        \* the last derivation: its two arguments, the server's and the client's id
    \* ---- socket relay
    nextSocket,     \* number of connections accepted so far; socket ids are never reused
    connected,      \* the sockets currently connected
    userData,       \* socket.userData of each socket accepted so far: the uid of its last user_signed_in
    onlineUsers,    \* the presence directory, in the object's key insertion order
    userListSeq,    \* number of update_user_list events emitted so far
    lastUserList,   \* the most recent update_user_list: its payload and its recipients
    signIns,        \* number of user_signed_in events handled so far
    rooms,          \* the adapter's room membership: pairs <<socket, room>>
    joinLog,        \* history: pairs <<socket, chat id>> of the join_chat events received
    messages,       \* the Message collection of the document store
    nextId,         \* number of Message documents constructed so far
    sends,          \* the send_message handler invocations, each with its position
    deliveries,     \* history: the receive_message events emitted, with their recipients
    \* ---- REST endpoints
    users,          \* the User collection of the document store
    regs,           \* the POST /register requests, each with its position
    asks,           \* the POST /ask-ai requests, each with its position
    lastResponse,   \* the response to the most recent GET request
    \* ---- the chat client of currentUser
    clientUsers,    \* the users state: the sidebar's entries
    usersFetch,     \* the GET /users request of fetchAndSetUsers, with its position
    userListSeen,   \* number of the last update_user_list event the listener handled
    userListHeard,  \* history: the payload of that event
    activeChat,     \* uid of the selected user: the activeChat state and activeChatRef
    clientMessages, \* the messages state: the displayed list
    selects,        \* the selectChat calls, each with its position
    deliveriesSeen  \* number of receive_message events that have reached the client

chatIdVars == <<derived>>
presenceVars == <<nextSocket, connected, userData, onlineUsers, userListSeq, lastUserList, signIns>>
roomVars == <<rooms, joinLog>>
messageVars == <<messages, nextId, sends, deliveries>>
relayVars == <<presenceVars, roomVars, messageVars>>
httpVars == <<users, regs, asks, lastResponse>>
sidebarVars == <<clientUsers, usersFetch, userListSeen, userListHeard>>
chatViewVars == <<activeChat, clientMessages, selects, deliveriesSeen>>
clientVars == <<sidebarVars, chatViewVars>>
vars == <<chatIdVars, relayVars, httpVars, clientVars>>

----------------------------------------------------------------------------
(* Bounds *)

\* Longest identifier drawn over Alphabet when the chat id is derived.
MaxIdLen == 3
\* Connections accepted in a run of the presence directory alone.
MaxSockets == 2
\* Connections accepted in a run of the whole relay.
MaxRelaySockets == 1
\* user_signed_in events handled in a run of the presence directory alone.
MaxSignIns == 3
\* user_signed_in events handled in a run of the whole relay.
MaxRelaySignIns == 1
\* send_message events handled in a run.
MaxSends == 1
\* POST /register requests in a run.
MaxRegs == 2
\* POST /ask-ai requests in a run.
MaxAsks == 1
\* Connections accepted in a run of the client's sidebar.
MaxSidebarSockets == 2
\* user_signed_in events handled in a run of the client's sidebar.
MaxSidebarSignIns == 2
\* selectChat calls in a run.
MaxSelects == 2
\* Requests addressed to ai_assistant (send_message events and POST /ask-ai calls
\* together) in a run of the AI turn under fair scheduling.
MaxAiTurns == 1

----------------------------------------------------------------------------
(* Strings *)

Alphabet == {"_", "a", "b"}

\* The UTF-16 code unit of a character: what the default sort compares.
CodeUnit(c) ==
    CASE c = "_" -> 95
      [] c = "a" -> 97
      [] c = "b" -> 98
      [] c = "c" -> 99
      [] c = "i" -> 105
      [] c = "n" -> 110
      [] c = "s" -> 115
      [] c = "t" -> 116

\* The strings over Alphabet of length 1..n.
StringsUpTo(n) == UNION {[1..k -> Alphabet] : k \in 1..n}

ai_assistant == <<"a", "i", "_", "a", "s", "s", "i", "s", "t", "a", "n", "t">>

RECURSIVE StrLess(_, _)
\* x < y for strings: lexicographic by code unit, a proper prefix first.
StrLess(x, y) ==
    IF y = <<>> THEN FALSE
    ELSE IF x = <<>> THEN TRUE
    ELSE IF CodeUnit(Head(x)) # CodeUnit(Head(y)) THEN CodeUnit(Head(x)) < CodeUnit(Head(y))
    ELSE StrLess(Tail(x), Tail(y))

\* [id1, id2].sort(): the default comparator, stable for equal strings.
SortPair(id1, id2) == IF StrLess(id2, id1) THEN <<id2, id1>> ELSE <<id1, id2>>

\* [x, y].join('_')
JoinPair(p) == p[1] \o <<"_">> \o p[2]

\* A derivation that forgets the sort.
getChatIdUnsorted(id1, id2) == JoinPair(<<id1, id2>>)

\* const getChatId = (id1, id2) => [id1, id2].sort().join('_');   (server)
getChatId(id1, id2) == JoinPair(SortPair(id1, id2))

\* The client's copy of the derivation, in ChatScreen.
clientGetChatId(id1, id2) == JoinPair(SortPair(id1, id2))


----------------------------------------------------------------------------
(* Inputs of the socket relay *)

ua == <<"a">>
ub == <<"b">>

\* The value of a property that was never set.
undefined == <<>>

\* uid of the user objects sent with user_signed_in.
SignInUids == {ua, ub}
\* senderId, receiverId and text of the send_message payloads.
SenderIds == {ua}
ReceiverIds == {ub, ai_assistant}
Texts == {"hello"}
\* Chat ids sent with join_chat.
JoinChatIds == {getChatId(ua, ai_assistant)}
\* What the hosted model answers when the call succeeds.
ModelText == "model reply"

----------------------------------------------------------------------------
(* The presence directory: let onlineUsers = {} *)

\* onlineUsers[uid] is set (truthy)
HasEntry(directory, uid) == \E i \in 1..Len(directory) : directory[i].uid = uid

\* onlineUsers[uid], for a key that is set
EntryOf(directory, uid) == directory[CHOOSE i \in 1..Len(directory) : directory[i].uid = uid]

\* onlineUsers[uid] = entry: an existing key keeps its place, a new key comes last.
PutEntry(directory, uid, entry) ==
    IF HasEntry(directory, uid)
    THEN [i \in 1..Len(directory) |-> IF directory[i].uid = uid THEN entry ELSE directory[i]]
    ELSE Append(directory, entry)

\* delete onlineUsers[uid]
DeleteEntry(directory, uid) == SelectSeq(directory, LAMBDA e : e.uid # uid)

\* A payload taken before the directory was changed.
StaleValues(directory) == onlineUsers

\* Object.values(onlineUsers)
ObjectValues(directory) == directory

\* io.emit('update_user_list', payload): to every socket connected at that moment.
EmitUserList(payload, recipients) ==
    /\ userListSeq' = userListSeq + 1
    /\ lastUserList' = [payload |-> payload, to |-> recipients]

\* io.on('connection', (socket) => ...): a socket with a fresh id, not signed in.
Connection ==
    /\ nextSocket' = nextSocket + 1
    /\ connected' = connected \cup {nextSocket + 1}
    /\ userData' = Append(userData, undefined)
    /\ UNCHANGED <<onlineUsers, userListSeq, lastUserList, signIns>>
    /\ UNCHANGED <<roomVars, messageVars, chatIdVars, httpVars, clientVars>>

\* socket.on('user_signed_in', (user) => ...)
UserSignedIn(s, uid) ==
    /\ s \in connected
    /\ signIns' = signIns + 1
    /\ userData' = [userData EXCEPT ![s] = uid]
    /\ onlineUsers' = PutEntry(onlineUsers, uid, [uid |-> uid, socketId |-> s])
    /\ EmitUserList(ObjectValues(onlineUsers'), connected)
    /\ UNCHANGED <<nextSocket, connected>>
    /\ UNCHANGED <<roomVars, messageVars, chatIdVars, httpVars, clientVars>>

\* if (socket.userData && onlineUsers[socket.userData.uid])
RemovesEntry(s) == userData[s] # undefined /\ HasEntry(onlineUsers, userData[s])

\* socket.on('disconnect', () => ...): the socket has left the namespace and its
\* rooms when the handler runs.
Disconnect(s) ==
    /\ s \in connected
    /\ connected' = connected \ {s}
    /\ rooms' = {r \in rooms : r[1] # s}
    /\ IF RemovesEntry(s)
       THEN /\ onlineUsers' = DeleteEntry(onlineUsers, userData[s])
            /\ EmitUserList(ObjectValues(onlineUsers'), connected')
       ELSE UNCHANGED <<onlineUsers, userListSeq, lastUserList>>
    /\ UNCHANGED <<nextSocket, userData, signIns, joinLog>>
    /\ UNCHANGED <<messageVars, chatIdVars, httpVars, clientVars>>

----------------------------------------------------------------------------
(* Rooms *)

\* socket.on('join_chat', (chatId) => { socket.join(chatId); })
JoinChat(s, chatId) ==
    /\ s \in connected
    /\ rooms' = rooms \cup {<<s, chatId>>}
    /\ joinLog' = joinLog \cup {<<s, chatId>>}
    /\ UNCHANGED <<presenceVars, messageVars, chatIdVars, httpVars, clientVars>>

\* io.emit(...): every connected socket.
AllSockets(chatId) == connected

\* io.to(chatId): the sockets in the room.
RoomRecipients(chatId) == {s \in connected : <<s, chatId>> \in rooms}

----------------------------------------------------------------------------
(* Messages and the AI turn *)

\* .limit(10)
HistoryLimit == 10

NotSureText == "I'm not sure how to respond to that. Please ask a question."
SorryText == "I'm sorry, an unexpected error occurred."

\* new Message({ chatId, senderId, receiverId, text }): _id and timestamp are set
\* when the document is constructed.
NewMessage(chatId, senderId, receiverId, text) ==
    [id |-> nextId + 1, chatId |-> chatId, senderId |-> senderId,
     receiverId |-> receiverId, text |-> text, timestamp |-> nextId + 1]

RECURSIVE NewestFirst(_)
\* .sort({ timestamp: -1 }) of a set of documents
NewestFirst(docs) ==
    IF docs = {} THEN <<>>
    ELSE LET newest == CHOOSE d \in docs : \A e \in docs : e.timestamp <= d.timestamp
         IN  <<newest>> \o NewestFirst(docs \ {newest})

\* array.reverse()
Reverse(seq) == [i \in 1..Len(seq) |-> seq[Len(seq) + 1 - i]]

\* Message.find({ chatId }).sort({ timestamp: -1 }).limit(10)
FindHistory(store, chatId) ==
    LET sorted == NewestFirst({store[i] : i \in {j \in 1..Len(store) : store[j].chatId = chatId}})
    IN  SubSeq(sorted, 1, IF Len(sorted) < HistoryLimit THEN Len(sorted) ELSE HistoryLimit)

\* history.reverse().map(msg => ({ role: ..., parts: [{ text: msg.text }] }))
ChatHistoryForAI(history) ==
    LET oldestFirst == Reverse(history)
    IN  [i \in 1..Len(oldestFirst) |->
            [role |-> IF oldestFirst[i].senderId = ai_assistant THEN "model" ELSE "user",
             text |-> oldestFirst[i].text]]

\* getGeminiResponse reaches chat.sendMessage: the last element exists and is the user's.
CallsModel(chatHistory) ==
    chatHistory # <<>> /\ chatHistory[Len(chatHistory)].role = "user"

\* getGeminiResponse(chatHistory); api is how the hosted call ends, "ok" or "error".
getGeminiResponse(chatHistory, api) ==
    IF ~CallsModel(chatHistory) THEN NotSureText
    ELSE IF api = "ok" THEN ModelText
    ELSE SorryText

\* Every message takes the AI branch.
AlwaysAiTurn(receiverId) == TRUE

\* if (receiverId === 'ai_assistant')
IsAiTurn(receiverId) == receiverId = ai_assistant

NoMessage == [id |-> 0, chatId |-> <<>>, senderId |-> <<>>, receiverId |-> <<>>,
              text |-> "", timestamp |-> 0]

\* A send_message invocation that has not started.
IdleSend == [pc |-> "idle", senderId |-> <<>>, receiverId |-> <<>>,
             text |-> "", chatId |-> <<>>, messageToSave |-> NoMessage,
             chatHistoryForAI |-> <<>>, llm |-> "none", aiMessage |-> NoMessage,
             failedAt |-> "none"]

\* io.to(chatId).emit('receive_message', message)
EmitMessage(h, message) ==
    deliveries' = Append(deliveries,
        [by |-> h, message |-> message, to |-> RoomRecipients(message.chatId)])

\* socket.on('send_message', async (data) => ...) up to  await messageToSave.save()
SendMessage(h, s, senderId, receiverId, text) ==
    /\ s \in connected
    /\ sends[h].pc = "idle"
    /\ \A g \in 1..(h - 1) : sends[g].pc # "idle"
    /\ LET chatId == getChatId(senderId, receiverId)
       IN  sends' = [sends EXCEPT ![h] =
               [@ EXCEPT !.pc = "save", !.senderId = senderId,
                         !.receiverId = receiverId, !.text = text, !.chatId = chatId,
                         !.messageToSave = NewMessage(chatId, senderId, receiverId, text)]]
    /\ nextId' = nextId + 1
    /\ UNCHANGED <<messages, deliveries>>
    /\ UNCHANGED <<presenceVars, roomVars, chatIdVars, httpVars, clientVars>>

\* The save resolved: the message is emitted to its room; an AI turn goes on to
\* await Message.find(...).
UserMessageSaved(h) ==
    /\ sends[h].pc = "save"
    /\ messages' = Append(messages, sends[h].messageToSave)
    /\ EmitMessage(h, sends[h].messageToSave)
    /\ sends' = [sends EXCEPT ![h].pc =
                    IF IsAiTurn(sends[h].receiverId) THEN "find" ELSE "done"]
    /\ UNCHANGED nextId
    /\ UNCHANGED <<presenceVars, roomVars, chatIdVars, httpVars, clientVars>>

\* A handler that emitted before awaiting the save.
StoreRejectsAfterEmit(h) ==
    /\ sends[h].pc \in {"save", "find", "save_ai"}
    /\ sends' = [sends EXCEPT ![h].pc = "caught", ![h].failedAt = sends[h].pc]
    /\ IF sends[h].pc = "save" THEN EmitMessage(h, sends[h].messageToSave)
       ELSE UNCHANGED deliveries
    /\ UNCHANGED <<messages, nextId>>
    /\ UNCHANGED <<presenceVars, roomVars, chatIdVars, httpVars, clientVars>>

\* An awaited store operation rejected: catch (error) { console.error(...) }
StoreRejects(h) ==
    /\ sends[h].pc \in {"save", "find", "save_ai"}
    /\ sends' = [sends EXCEPT ![h].pc = "caught", ![h].failedAt = sends[h].pc]
    /\ UNCHANGED <<messages, nextId, deliveries>>
    /\ UNCHANGED <<presenceVars, roomVars, chatIdVars, httpVars, clientVars>>

\* The find resolved: the history is mapped and getGeminiResponse is awaited.
HistoryFound(h) ==
    /\ sends[h].pc = "find"
    /\ sends' = [sends EXCEPT ![h].pc = "gemini",
                    ![h].chatHistoryForAI =
                        ChatHistoryForAI(FindHistory(messages, sends[h].chatId))]
    /\ UNCHANGED <<messages, nextId, deliveries>>
    /\ UNCHANGED <<presenceVars, roomVars, chatIdVars, httpVars, clientVars>>

\* A getGeminiResponse without its catch: a failed call rejects, and the handler's
\* own catch ends the turn.
GeminiRespondedOrThrew(h, api) ==
    /\ sends[h].pc = "gemini"
    /\ IF CallsModel(sends[h].chatHistoryForAI) /\ api = "error"
       THEN /\ sends' = [sends EXCEPT ![h].pc = "caught", ![h].failedAt = "gemini",
                                      ![h].llm = api]
            /\ UNCHANGED nextId
       ELSE /\ sends' = [sends EXCEPT ![h].pc = "save_ai",
                   ![h].llm = IF CallsModel(sends[h].chatHistoryForAI) THEN api ELSE "skipped",
                   ![h].aiMessage =
                       [id |-> nextId + 1, chatId |-> sends[h].chatId,
                        senderId |-> ai_assistant, receiverId |-> sends[h].senderId,
                        text |-> IF CallsModel(sends[h].chatHistoryForAI)
                                 THEN ModelText
                                 ELSE "I'm not sure how to respond to that. Please ask a question.",
                        timestamp |-> nextId + 1]]
            /\ nextId' = nextId + 1
    /\ UNCHANGED <<messages, deliveries>>
    /\ UNCHANGED <<presenceVars, roomVars, chatIdVars, httpVars, clientVars>>

\* getGeminiResponse resolved: aiMessage is constructed and its save awaited.
GeminiResponded(h, api) ==
    /\ sends[h].pc = "gemini"
    /\ LET aiResponseText == getGeminiResponse(sends[h].chatHistoryForAI, api)
       IN  sends' = [sends EXCEPT ![h].pc = "save_ai",
               ![h].llm = IF CallsModel(sends[h].chatHistoryForAI) THEN api ELSE "skipped",
               ![h].aiMessage =
                   NewMessage(sends[h].chatId, ai_assistant, sends[h].senderId, aiResponseText)]
    /\ nextId' = nextId + 1
    /\ UNCHANGED <<messages, deliveries>>
    /\ UNCHANGED <<presenceVars, roomVars, chatIdVars, httpVars, clientVars>>

\* The AI message's save resolved: it is emitted to the room.
AiMessageSaved(h) ==
    /\ sends[h].pc = "save_ai"
    /\ messages' = Append(messages, sends[h].aiMessage)
    /\ EmitMessage(h, sends[h].aiMessage)
    /\ sends' = [sends EXCEPT ![h].pc = "done"]
    /\ UNCHANGED nextId
    /\ UNCHANGED <<presenceVars, roomVars, chatIdVars, httpVars, clientVars>>

----------------------------------------------------------------------------
(* REST endpoints *)

\* name and phone of the POST /register bodies.
RegNames == {"Ann", "Bob"}
RegPhones == {ua, ub}
\* prompt and userId of the POST /ask-ai bodies; "" is a missing prompt.
AskPrompts == {"", "what?"}
AskUserIds == {ua}
\* Participants named in the paths of GET /messages/<a>/<b>.
PathIds == {ua, ub, ai_assistant}

\* The routes the application registers: app.post('/register'), app.get('/users'),
\* app.post('/ask-ai').
Routes == {[method |-> "POST", path |-> <<"register">>],
           [method |-> "GET", path |-> <<"users">>],
           [method |-> "POST", path |-> <<"ask-ai">>]}

\* A request is routed to a handler when its method and path match a registered route.
HasRoute(method, path) == [method |-> method, path |-> path] \in Routes

NoUser == [uid |-> <<>>, phone |-> <<>>, name |-> ""]

\* User.findOne({ uid }): the stored user's place in the collection, 0 for null
FindOne(store, uid) ==
    IF \E i \in 1..Len(store) : store[i].uid = uid
    THEN CHOOSE i \in 1..Len(store) : store[i].uid = uid
    ELSE 0

\* The unique indexes on phone and uid reject a second document with either value.
DuplicateKey(store, doc) ==
    \E i \in 1..Len(store) : store[i].uid = doc.uid \/ store[i].phone = doc.phone

\* A POST /register request that has not arrived.
IdleReg == [pc |-> "idle", name |-> "", phone |-> <<>>, uid |-> <<>>,
            status |-> 0, user |-> NoUser]

\* app.post('/register', ...) up to  await User.findOne({ uid })
Register(r, name, phone) ==
    /\ regs[r].pc = "idle"
    /\ \A q \in 1..(r - 1) : regs[q].pc # "idle"
    /\ regs' = [regs EXCEPT ![r] = [@ EXCEPT !.pc = "findOne", !.name = name,
                                              !.phone = phone, !.uid = phone]]
    /\ UNCHANGED <<users, asks, lastResponse>>
    /\ UNCHANGED <<relayVars, chatIdVars, clientVars>>

\* findOne resolved: an existing user is answered 200; otherwise newUser is
\* constructed and its save awaited.
RegisterLookedUp(r) ==
    /\ regs[r].pc = "findOne"
    /\ LET i == FindOne(users, regs[r].uid)
       IN  regs' = [regs EXCEPT ![r] =
               IF i # 0
               THEN [@ EXCEPT !.pc = "done", !.status = 200, !.user = users[i]]
               ELSE [@ EXCEPT !.pc = "save",
                     !.user = [uid |-> regs[r].uid, phone |-> regs[r].phone,
                               name |-> regs[r].name]]]
    /\ UNCHANGED <<users, asks, lastResponse>>
    /\ UNCHANGED <<relayVars, chatIdVars, clientVars>>

\* newUser.save() resolved: res.status(201)
RegisterSaved(r) ==
    /\ regs[r].pc = "save"
    /\ ~DuplicateKey(users, regs[r].user)
    /\ users' = Append(users, regs[r].user)
    /\ regs' = [regs EXCEPT ![r].pc = "done", ![r].status = 201]
    /\ UNCHANGED <<asks, lastResponse>>
    /\ UNCHANGED <<relayVars, chatIdVars, clientVars>>

\* newUser.save() rejected with a duplicate key: catch (error) { res.status(500) }
RegisterRejected(r) ==
    /\ regs[r].pc = "save"
    /\ DuplicateKey(users, regs[r].user)
    /\ regs' = [regs EXCEPT ![r].pc = "done", ![r].status = 500, ![r].user = NoUser]
    /\ UNCHANGED <<users, asks, lastResponse>>
    /\ UNCHANGED <<relayVars, chatIdVars, clientVars>>

\* The response to a GET request: app.get('/users') answers 200 with User.find({});
\* a path no route matches is answered 404 by the framework.
GetResponse(path) ==
    IF HasRoute("GET", path)
    THEN [method |-> "GET", path |-> path, status |-> 200, body |-> users]
    ELSE [method |-> "GET", path |-> path, status |-> 404, body |-> <<>>]

\* A GET request, as the client issues for the user list and for a chat's history.
HttpGet(path) ==
    /\ lastResponse' = GetResponse(path)
    /\ UNCHANGED <<users, regs, asks>>
    /\ UNCHANGED <<relayVars, chatIdVars, clientVars>>

\* A POST /ask-ai request that has not arrived.
IdleAsk == [pc |-> "idle", prompt |-> "", userId |-> <<>>, chatId |-> <<>>,
            userMessage |-> NoMessage, chatHistoryForAI |-> <<>>, llm |-> "none",
            aiMessage |-> NoMessage, status |-> 0, response |-> ""]

\* app.post('/ask-ai', ...) up to  await userMessage.save(), or the 400 answer
AskAi(q, prompt, userId) ==
    /\ asks[q].pc = "idle"
    /\ \A p \in 1..(q - 1) : asks[p].pc # "idle"
    /\ IF prompt = "" \/ userId = <<>>
       THEN /\ asks' = [asks EXCEPT ![q] = [@ EXCEPT !.pc = "done", !.prompt = prompt,
                                                    !.userId = userId, !.status = 400]]
            /\ UNCHANGED nextId
       ELSE /\ LET chatId == getChatId(userId, ai_assistant)
               IN  asks' = [asks EXCEPT ![q] =
                       [@ EXCEPT !.pc = "save", !.prompt = prompt, !.userId = userId,
                                 !.chatId = chatId,
                                 !.userMessage = NewMessage(chatId, userId, ai_assistant, prompt)]]
            /\ nextId' = nextId + 1
    /\ UNCHANGED <<messages, sends, deliveries, users, regs, lastResponse>>
    /\ UNCHANGED <<presenceVars, roomVars, chatIdVars, clientVars>>

\* userMessage.save() resolved: await Message.find(...)
AskUserMessageSaved(q) ==
    /\ asks[q].pc = "save"
    /\ messages' = Append(messages, asks[q].userMessage)
    /\ asks' = [asks EXCEPT ![q].pc = "find"]
    /\ UNCHANGED <<nextId, sends, deliveries, users, regs, lastResponse>>
    /\ UNCHANGED <<presenceVars, roomVars, chatIdVars, clientVars>>

\* The find resolved: the history is mapped and getGeminiResponse is awaited.
AskHistoryFound(q) ==
    /\ asks[q].pc = "find"
    /\ asks' = [asks EXCEPT ![q].pc = "gemini",
                   ![q].chatHistoryForAI =
                       ChatHistoryForAI(FindHistory(messages, asks[q].chatId))]
    /\ UNCHANGED <<messages, nextId, sends, deliveries, users, regs, lastResponse>>
    /\ UNCHANGED <<presenceVars, roomVars, chatIdVars, clientVars>>

\* getGeminiResponse resolved: aiMessage is constructed and its save awaited.
AskGeminiResponded(q, api) ==
    /\ asks[q].pc = "gemini"
    /\ LET aiResponseText == getGeminiResponse(asks[q].chatHistoryForAI, api)
       IN  asks' = [asks EXCEPT ![q].pc = "save_ai",
               ![q].llm = IF CallsModel(asks[q].chatHistoryForAI) THEN api ELSE "skipped",
               ![q].response = aiResponseText,
               ![q].aiMessage =
                   NewMessage(asks[q].chatId, ai_assistant, asks[q].userId, aiResponseText)]
    /\ nextId' = nextId + 1
    /\ UNCHANGED <<messages, sends, deliveries, users, regs, lastResponse>>
    /\ UNCHANGED <<presenceVars, roomVars, chatIdVars, clientVars>>

\* aiMessage.save() resolved: res.json({ response: aiResponseText })
AskAiMessageSaved(q) ==
    /\ asks[q].pc = "save_ai"
    /\ messages' = Append(messages, asks[q].aiMessage)
    /\ asks' = [asks EXCEPT ![q].pc = "done", ![q].status = 200]
    /\ UNCHANGED <<nextId, sends, deliveries, users, regs, lastResponse>>
    /\ UNCHANGED <<presenceVars, roomVars, chatIdVars, clientVars>>

\* An awaited store operation rejected: catch (error) { res.status(500) }
AskStoreRejects(q) ==
    /\ asks[q].pc \in {"save", "find", "save_ai"}
    /\ asks' = [asks EXCEPT ![q].pc = "done", ![q].status = 500, ![q].response = ""]
    /\ UNCHANGED <<messages, nextId, sends, deliveries, users, regs, lastResponse>>
    /\ UNCHANGED <<presenceVars, roomVars, chatIdVars, clientVars>>

----------------------------------------------------------------------------
(* The chat client: the sidebar *)

\* The user the client is signed in as, and the socket io(SERVER_URL) opened for it.
currentUser == ua
ClientSocket == 1
\* The other user who signs in.
SidebarPeers == {ub}

\* socketId: null marks a user offline; the assistant's is the text 'always-online'.
null == 0
always_online == -1

aiAssistant == [uid |-> ai_assistant, name |-> "AI Assistant", phone |-> <<"A", "I">>,
                socketId |-> always_online]

\* The GET /users request before fetchAndSetUsers has issued it.
IdleFetch == [pc |-> "idle", response |-> [method |-> "", path |-> <<>>, status |-> 0,
                                           body |-> <<>>]]

\* response.data.filter(u => u.uid !== currentUser.uid).map(u => ({ ...u, socketId: null }))
otherUsers(data) ==
    LET kept == SelectSeq(data, LAMBDA u : u.uid # currentUser)
    IN  [i \in 1..Len(kept) |-> [uid |-> kept[i].uid, name |-> kept[i].name,
                                 phone |-> kept[i].phone, socketId |-> null]]

\* onlineUsers.map(u => u.uid)
onlineUserUids(list) == {list[i].uid : i \in 1..Len(list)}

\* onlineUsers.find(u => u.uid === uid): the first entry with that uid.
FindOnline(list, uid) ==
    list[CHOOSE i \in 1..Len(list) :
            /\ list[i].uid = uid
            /\ \A j \in 1..(i - 1) : list[j].uid # uid]

\* The updater of the update_user_list listener, applied to the users state.
MergeOnline(currentUsers, list) ==
    [i \in 1..Len(currentUsers) |->
        IF currentUsers[i].uid \in onlineUserUids(list)
        THEN [currentUsers[i] EXCEPT !.socketId = FindOnline(list, currentUsers[i].uid).socketId]
        ELSE IF currentUsers[i].uid # ai_assistant
        THEN [currentUsers[i] EXCEPT !.socketId = null]
        ELSE currentUsers[i]]

\* fetchAndSetUsers up to its await: the GET /users request is sent and answered.
FetchUsers ==
    /\ usersFetch.pc = "idle"
    /\ usersFetch' = [pc |-> "responded", response |-> GetResponse(<<"users">>)]
    /\ lastResponse' = GetResponse(<<"users">>)
    /\ UNCHANGED <<clientUsers, userListSeen, userListHeard>>
    /\ UNCHANGED <<users, regs, asks>>
    /\ UNCHANGED <<relayVars, chatIdVars, chatViewVars>>

\* axios.get resolved: setUsers([aiAssistant, ...otherUsers])
UsersFetched ==
    /\ usersFetch.pc = "responded"
    /\ usersFetch' = [usersFetch EXCEPT !.pc = "resolved"]
    /\ clientUsers' = <<aiAssistant>> \o otherUsers(usersFetch.response.body)
    /\ UNCHANGED <<userListSeen, userListHeard>>
    /\ UNCHANGED <<relayVars, chatIdVars, httpVars, chatViewVars>>

\* socket.current.on('update_user_list', (onlineUsers) => ...): the newest event sent
\* to the client's socket. A socket delivers its events in order and the updater's
\* result depends only on the entries' uids and on the event, so handling the newest
\* undelivered event leaves the state that handling all of them in order leaves.
ReceiveUserList ==
    /\ userListSeen < userListSeq
    /\ ClientSocket \in lastUserList.to
    /\ clientUsers' = MergeOnline(clientUsers, lastUserList.payload)
    /\ userListSeen' = userListSeq
    /\ userListHeard' = lastUserList.payload
    /\ UNCHANGED usersFetch
    /\ UNCHANGED <<relayVars, chatIdVars, httpVars, chatViewVars>>

----------------------------------------------------------------------------
(* The chat client: the chat view *)

\* The users selectChat is called with.
SelectPeers == {ub, ai_assistant}

\* activeChat before a chat is selected: null
NoChat == <<>>

\* A selectChat call that has not been made.
IdleSelect == [pc |-> "idle", user |-> NoChat, chatId |-> <<>>, data |-> <<>>]

\* The messages of a chat, as the history endpoint answers them.
MessagesOfChat(store, chatId) == SelectSeq(store, LAMBDA m : m.chatId = chatId)

\* selectChat(user) up to  await axios.get(`/messages/${currentUser.uid}/${user.uid}`)
SelectChat(k, user) ==
    /\ selects[k].pc = "idle"
    /\ \A j \in 1..(k - 1) : selects[j].pc # "idle"
    /\ activeChat' = user
    /\ clientMessages' = <<>>
    /\ selects' = [selects EXCEPT ![k] =
                      [@ EXCEPT !.pc = "get", !.user = user,
                                !.chatId = clientGetChatId(currentUser, user)]]
    /\ UNCHANGED deliveriesSeen
    /\ UNCHANGED <<relayVars, chatIdVars, httpVars, sidebarVars>>

\* GET /messages/<user1>/<user2> answered with the chat's persisted messages.
GetMessages(k) ==
    /\ selects[k].pc = "get"
    /\ selects' = [selects EXCEPT ![k].pc = "responded",
                                  ![k].data = MessagesOfChat(messages,
                                                  getChatId(currentUser, selects[k].user))]
    /\ UNCHANGED <<activeChat, clientMessages, deliveriesSeen>>
    /\ UNCHANGED <<relayVars, chatIdVars, httpVars, sidebarVars>>

\* axios.get resolved: setMessages(response.data); then join_chat is emitted.
HistoryResolved(k) ==
    /\ selects[k].pc = "responded"
    /\ clientMessages' = selects[k].data
    /\ selects' = [selects EXCEPT ![k].pc = "emitted"]
    /\ UNCHANGED <<activeChat, deliveriesSeen>>
    /\ UNCHANGED <<relayVars, chatIdVars, httpVars, sidebarVars>>

\* axios.get rejected: catch (error) { console.error(...) }; then join_chat is emitted.
HistoryRejected(k) ==
    /\ selects[k].pc = "get"
    /\ selects' = [selects EXCEPT ![k].pc = "emitted"]
    /\ UNCHANGED <<activeChat, clientMessages, deliveriesSeen>>
    /\ UNCHANGED <<relayVars, chatIdVars, httpVars, sidebarVars>>

\* The receive_message events reach a socket in the order they were emitted.
NextDelivery == deliveries[deliveriesSeen + 1]

\* socket.current.on('receive_message', (message) => ...); an event emitted to a room
\* the client's socket is not in does not reach the listener.
ReceiveMessage ==
    /\ deliveriesSeen < Len(deliveries)
    /\ deliveriesSeen' = deliveriesSeen + 1
    /\ clientMessages' =
          IF /\ ClientSocket \in NextDelivery.to
             /\ activeChat # NoChat
             /\ NextDelivery.message.chatId = clientGetChatId(currentUser, activeChat)
          THEN Append(clientMessages, NextDelivery.message)
          ELSE clientMessages
    /\ UNCHANGED <<activeChat, selects>>
    /\ UNCHANGED <<relayVars, chatIdVars, httpVars, sidebarVars>>

----------------------------------------------------------------------------
(* The chat-id derivation applied to drawn identifiers *)

\* The identifiers the derivation is applied to.
Ids == StringsUpTo(MaxIdLen) \cup {ai_assistant}

NoDerivation == [id1 |-> <<>>, id2 |-> <<>>, server |-> <<>>, client |-> <<>>]

\* Both sides derive the chat id of the pair (id1, id2), once in a run.
DeriveChatId(id1, id2) ==
    /\ derived = NoDerivation
    /\ derived' = [id1 |-> id1, id2 |-> id2, server |-> getChatId(id1, id2),
                   client |-> clientGetChatId(id1, id2)]
    /\ UNCHANGED <<relayVars, httpVars, clientVars>>

----------------------------------------------------------------------------
(* Specifications *)

Init ==
    /\ derived = NoDerivation
    /\ nextSocket = 0
    /\ connected = {}
    /\ userData = <<>>
    /\ onlineUsers = <<>>
    /\ userListSeq = 0
    /\ lastUserList = [payload |-> <<>>, to |-> {}]
    /\ signIns = 0
    /\ rooms = {}
    /\ joinLog = {}
    /\ messages = <<>>
    /\ nextId = 0
    /\ sends = [h \in 1..MaxSends |-> IdleSend]
    /\ deliveries = <<>>
    /\ users = <<>>
    /\ regs = [r \in 1..MaxRegs |-> IdleReg]
    /\ asks = [q \in 1..MaxAsks |-> IdleAsk]
    /\ lastResponse = [method |-> "", path |-> <<>>, status |-> 0, body |-> <<>>]
    /\ clientUsers = <<>>
    /\ usersFetch = IdleFetch
    /\ userListSeen = 0
    /\ userListHeard = <<>>
    /\ activeChat = NoChat
    /\ clientMessages = <<>>
    /\ selects = [k \in 1..MaxSelects |-> IdleSelect]
    /\ deliveriesSeen = 0

\* The socket relay: connections, presence, rooms, messages and the AI turn.
Next ==
    \/ nextSocket < MaxRelaySockets /\ Connection
    \/ \E s \in connected, uid \in SignInUids :
            signIns < MaxRelaySignIns /\ UserSignedIn(s, uid)
    \/ \E s \in connected, chatId \in JoinChatIds : JoinChat(s, chatId)
    \/ \E s \in connected : Disconnect(s)
    \/ \E h \in 1..MaxSends, s \in connected, senderId \in SenderIds,
          receiverId \in ReceiverIds, text \in Texts :
            SendMessage(h, s, senderId, receiverId, text)
    \/ \E h \in 1..MaxSends : UserMessageSaved(h)
    \/ \E h \in 1..MaxSends : StoreRejects(h)
    \/ \E h \in 1..MaxSends : HistoryFound(h)
    \/ \E h \in 1..MaxSends, api \in {"ok", "error"} : GeminiResponded(h, api)
    \/ \E h \in 1..MaxSends : AiMessageSaved(h)

Spec == Init /\ [][Next]_vars

\* The presence directory alone: connections, sign-ins and disconnects.
NextPresence ==
    \/ nextSocket < MaxSockets /\ Connection
    \/ \E s \in connected, uid \in SignInUids :
            signIns < MaxSignIns /\ UserSignedIn(s, uid)
    \/ \E s \in connected : Disconnect(s)

SpecPresence == Init /\ [][NextPresence]_vars

\* The REST endpoints.
NextHttp ==
    \/ \E r \in 1..MaxRegs, name \in RegNames, phone \in RegPhones : Register(r, name, phone)
    \/ \E r \in 1..MaxRegs : RegisterLookedUp(r)
    \/ \E r \in 1..MaxRegs : RegisterSaved(r)
    \/ \E r \in 1..MaxRegs : RegisterRejected(r)
    \/ \E path \in {<<"users">>} \cup {<<"messages", a, b>> : a, b \in PathIds} : HttpGet(path)
    \/ \E q \in 1..MaxAsks, prompt \in AskPrompts, userId \in AskUserIds : AskAi(q, prompt, userId)
    \/ \E q \in 1..MaxAsks : AskUserMessageSaved(q)
    \/ \E q \in 1..MaxAsks : AskHistoryFound(q)
    \/ \E q \in 1..MaxAsks, api \in {"ok", "error"} : AskGeminiResponded(q, api)
    \/ \E q \in 1..MaxAsks : AskAiMessageSaved(q)
    \/ \E q \in 1..MaxAsks : AskStoreRejects(q)

SpecHttp == Init /\ [][NextHttp]_vars

\* The chat-id derivation.
NextChatId == \E id1, id2 \in Ids : DeriveChatId(id1, id2)

SpecChatId == Init /\ [][NextChatId]_vars

\* Texts of the send_message events addressed to ai_assistant.
AiTexts == {"hello", "what?", "why?"}

\* The requests addressed to ai_assistant that have arrived.
AiTurns ==
    Cardinality({h \in 1..MaxSends : sends[h].pc # "idle"})
        + Cardinality({q \in 1..MaxAsks : asks[q].pc # "idle"})

\* The AI turn alone: send_message events to ai_assistant and POST /ask-ai requests.
NextAi ==
    \/ nextSocket < MaxRelaySockets /\ Connection
    \/ \E h \in 1..MaxSends, s \in connected, senderId \in SignInUids, text \in AiTexts :
            AiTurns < MaxAiTurns /\ SendMessage(h, s, senderId, ai_assistant, text)
    \/ \E h \in 1..MaxSends : UserMessageSaved(h)
    \/ \E h \in 1..MaxSends : StoreRejects(h)
    \/ \E h \in 1..MaxSends : HistoryFound(h)
    \/ \E h \in 1..MaxSends, api \in {"ok", "error"} : GeminiResponded(h, api)
    \/ \E h \in 1..MaxSends : AiMessageSaved(h)
    \/ \E q \in 1..MaxAsks, prompt \in AskPrompts, userId \in SignInUids :
            AiTurns < MaxAiTurns /\ AskAi(q, prompt, userId)
    \/ \E q \in 1..MaxAsks : AskUserMessageSaved(q)
    \/ \E q \in 1..MaxAsks : AskHistoryFound(q)
    \/ \E q \in 1..MaxAsks, api \in {"ok", "error"} : AskGeminiResponded(q, api)
    \/ \E q \in 1..MaxAsks : AskAiMessageSaved(q)
    \/ \E q \in 1..MaxAsks : AskStoreRejects(q)

\* Concurrent AI turns: send_message events to ai_assistant and POST /ask-ai requests
\* on one chat, each handler started at any time.
NextAiConcurrent ==
    \/ nextSocket < MaxRelaySockets /\ Connection
    \/ \E h \in 1..MaxSends, s \in connected, senderId \in SenderIds, text \in Texts :
            SendMessage(h, s, senderId, ai_assistant, text)
    \/ \E h \in 1..MaxSends : UserMessageSaved(h)
    \/ \E h \in 1..MaxSends : StoreRejects(h)
    \/ \E h \in 1..MaxSends : HistoryFound(h)
    \/ \E h \in 1..MaxSends, api \in {"ok", "error"} : GeminiResponded(h, api)
    \/ \E h \in 1..MaxSends : AiMessageSaved(h)
    \/ \E q \in 1..MaxAsks, prompt \in AskPrompts, userId \in AskUserIds :
            AskAi(q, prompt, userId)
    \/ \E q \in 1..MaxAsks : AskUserMessageSaved(q)
    \/ \E q \in 1..MaxAsks : AskHistoryFound(q)
    \/ \E q \in 1..MaxAsks, api \in {"ok", "error"} : AskGeminiResponded(q, api)
    \/ \E q \in 1..MaxAsks : AskAiMessageSaved(q)
    \/ \E q \in 1..MaxAsks : AskStoreRejects(q)

SpecAiConcurrent == Init /\ [][NextAiConcurrent]_vars

\* What a send_message handler does once an awaited promise settles.
SendContinues(h) ==
    \/ UserMessageSaved(h)
    \/ StoreRejects(h)
    \/ HistoryFound(h)
    \/ \E api \in {"ok", "error"} : GeminiResponded(h, api)
    \/ AiMessageSaved(h)

\* What a POST /ask-ai handler does once an awaited promise settles.
AskContinues(q) ==
    \/ AskUserMessageSaved(q)
    \/ AskStoreRejects(q)
    \/ AskHistoryFound(q)
    \/ \E api \in {"ok", "error"} : AskGeminiResponded(q, api)
    \/ AskAiMessageSaved(q)

\* Every awaited promise (a store operation, the hosted call) settles, and the event
\* loop then resumes the handler that awaits it.
FairAi ==
    /\ \A h \in 1..MaxSends : WF_vars(SendContinues(h))
    /\ \A q \in 1..MaxAsks : WF_vars(AskContinues(q))

SpecAi == Init /\ [][NextAi]_vars /\ FairAi

\* The client's sidebar: registrations, the presence directory, the client's fetch
\* of the user list and its update_user_list listener.
NextSidebar ==
    \/ \E r \in 1..MaxRegs, name \in RegNames, phone \in RegPhones : Register(r, name, phone)
    \/ \E r \in 1..MaxRegs : RegisterLookedUp(r)
    \/ \E r \in 1..MaxRegs : RegisterSaved(r)
    \/ \E r \in 1..MaxRegs : RegisterRejected(r)
    \/ nextSocket < MaxSidebarSockets /\ Connection
    \/ \E s \in connected, uid \in {currentUser} \cup SidebarPeers :
            /\ signIns < MaxSidebarSignIns
            /\ s = ClientSocket <=> uid = currentUser
            /\ UserSignedIn(s, uid)
    \/ \E s \in connected : Disconnect(s)
    \/ FetchUsers
    \/ UsersFetched
    \/ ReceiveUserList

SpecSidebar == Init /\ [][NextSidebar]_vars

\* The client's chat view: chat selections with their history requests and room
\* joins, the messages sent in the client's chats, and the receive_message listener.
NextChatView ==
    \/ nextSocket < MaxRelaySockets /\ Connection
    \/ \E k \in 1..MaxSelects, user \in SelectPeers : SelectChat(k, user)
    \/ \E k \in 1..MaxSelects : GetMessages(k)
    \/ \E k \in 1..MaxSelects : HistoryResolved(k)
    \/ \E k \in 1..MaxSelects : HistoryRejected(k)
    \/ \E k \in 1..MaxSelects : selects[k].pc = "emitted" /\ JoinChat(ClientSocket, selects[k].chatId)
    \/ \E h \in 1..MaxSends, s \in connected, receiverId \in SelectPeers, text \in Texts :
            SendMessage(h, s, currentUser, receiverId, text)
    \/ \E h \in 1..MaxSends : UserMessageSaved(h)
    \/ \E h \in 1..MaxSends : StoreRejects(h)
    \/ \E h \in 1..MaxSends : HistoryFound(h)
    \/ \E h \in 1..MaxSends, api \in {"ok", "error"} : GeminiResponded(h, api)
    \/ \E h \in 1..MaxSends : AiMessageSaved(h)
    \/ ReceiveMessage

SpecChatView == Init /\ [][NextChatView]_vars

----------------------------------------------------------------------------
(* Chat id *)

\* C1: the chat id identifies exactly one unordered pair of participants: whenever
\* getChatId(c, d) equals the id derived for (id1, id2), {c, d} = {id1, id2}.
C1_ChatIdIdentifiesOnePair ==
    derived # NoDerivation =>
        \A c, d \in Ids :
            getChatId(c, d) = derived.server => {c, d} = {derived.id1, derived.id2}

\* C2: the chat id does not depend on the order of its arguments, and the server's
\* and the client's derivations agree: the id derived for (id1, id2) is the one
\* either side derives for (id2, id1).
C2_ChatIdOrderIndependent ==
    derived # NoDerivation =>
        /\ derived.server = getChatId(derived.id2, derived.id1)
        /\ derived.client = clientGetChatId(derived.id2, derived.id1)
        /\ derived.client = derived.server

\* A derivation in which the sort exchanged two different identifiers.
C2_Witness ==
    /\ derived # NoDerivation
    /\ StrLess(derived.id2, derived.id1)
    /\ derived.server = derived.id2 \o <<"_">> \o derived.id1
    /\ derived.client = derived.server

----------------------------------------------------------------------------
(* Presence directory *)

\* C3: the presence directory never holds a stale entry: every entry's socketId is
\* a connected socket whose last sign-in was as the entry's uid.
C3_NoStaleEntry ==
    \A i \in 1..Len(onlineUsers) :
        /\ onlineUsers[i].socketId \in connected
        /\ userData[onlineUsers[i].socketId] = onlineUsers[i].uid

\* C4: the presence directory never loses an online user: every uid with a
\* connected, signed-in socket has an entry.
C4_NoLostUser ==
    \A s \in connected : userData[s] # undefined => HasEntry(onlineUsers, userData[s])

\* C5: every change of the presence directory is announced: the payload of the most
\* recent update_user_list equals the directory; each sign-in and each change of
\* the directory emits one update_user_list with the new directory to the sockets
\* then connected; a disconnect of a socket that never signed in changes and emits
\* nothing.
C5_DirectoryAnnounced ==
    /\ [](lastUserList.payload = onlineUsers)
    /\ [][/\ (onlineUsers' # onlineUsers \/ signIns' # signIns)
                => userListSeq' = userListSeq + 1
          /\ userListSeq' # userListSeq
                => lastUserList' = [payload |-> onlineUsers', to |-> connected']
          /\ \A s \in connected \ connected' :
                userData[s] = undefined
                    => UNCHANGED <<onlineUsers, userListSeq, lastUserList>>]_vars

\* A disconnect removed the only entry and announced the empty directory to the
\* socket that stayed.
C5_Witness ==
    /\ connected = {2}
    /\ userData[1] # undefined
    /\ userData[2] = undefined
    /\ onlineUsers = <<>>
    /\ userListSeq = 2
    /\ lastUserList = [payload |-> <<>>, to |-> {2}]

----------------------------------------------------------------------------
(* Messages *)

\* The places of the document with this _id in a sequence of documents.
PlacesOf(id, docs) == {i \in 1..Len(docs) : docs[i].id = id}

\* The places of a message's receive_message events.
EmitsOf(id) == {i \in 1..Len(deliveries) : deliveries[i].message.id = id}

\* C6: a send_message to ai_assistant that completes has exactly one reply, from
\* ai_assistant to the sender in the same chat, persisted once and emitted once to
\* the chat's room, after the user's message was persisted and emitted; a
\* send_message to anyone else never calls the model and creates no reply.
C6_AiRouting ==
    \A h \in 1..MaxSends :
        LET r == sends[h] IN
        /\ (r.pc # "idle" /\ r.receiverId # ai_assistant) =>
              /\ r.llm = "none"
              /\ r.aiMessage = NoMessage
              /\ \A i \in 1..Len(deliveries) :
                    deliveries[i].by = h => deliveries[i].message = r.messageToSave
              /\ r.pc \in {"save", "done", "caught"}
        /\ (r.pc = "done" /\ r.receiverId = ai_assistant) =>
              /\ r.aiMessage.senderId = ai_assistant
              /\ r.aiMessage.receiverId = r.senderId
              /\ r.aiMessage.chatId = r.chatId
              /\ r.aiMessage.chatId = r.messageToSave.chatId
              /\ Cardinality(PlacesOf(r.aiMessage.id, messages)) = 1
              /\ Cardinality(EmitsOf(r.aiMessage.id)) = 1
              /\ Cardinality({i \in 1..Len(deliveries) : deliveries[i].by = h}) = 2
              /\ \A i \in EmitsOf(r.aiMessage.id) :
                    /\ deliveries[i].message = r.aiMessage
                    /\ \E j \in EmitsOf(r.messageToSave.id) : j < i
              /\ \A i \in PlacesOf(r.aiMessage.id, messages) :
                    /\ messages[i] = r.aiMessage
                    /\ \E j \in PlacesOf(r.messageToSave.id, messages) : j < i

\* An AI turn completed with the model called and its reply delivered to a socket
\* in the chat's room.
C6_Witness ==
    \E h \in 1..MaxSends :
        /\ sends[h].pc = "done" /\ sends[h].receiverId = ai_assistant
        /\ sends[h].llm = "ok"
        /\ \E i \in EmitsOf(sends[h].aiMessage.id) : deliveries[i].to # {}

C10_PersistBeforeBroadcast ==
    /\ [](/\ \A i \in 1..Len(deliveries) :
                \E j \in 1..Len(messages) : messages[j] = deliveries[i].message
          /\ \A h \in 1..MaxSends :
                (sends[h].pc = "caught" /\ sends[h].failedAt = "save") =>
                    /\ \A i \in 1..Len(deliveries) : deliveries[i].by # h
                    /\ PlacesOf(sends[h].messageToSave.id, messages) = {}
                    /\ sends[h].aiMessage = NoMessage
                    /\ sends[h].llm = "none")
    /\ [][\A h \in 1..MaxSends :
            (sends[h].pc = "save" /\ sends'[h].pc = "caught") =>
                UNCHANGED <<deliveries, messages, presenceVars, roomVars>>]_vars

\* The save of a message to ai_assistant failed while a user was online and a
\* socket was in the chat's room.
C10_Witness ==
    \E h \in 1..MaxSends :
        /\ sends[h].pc = "caught" /\ sends[h].failedAt = "save"
        /\ sends[h].receiverId = ai_assistant
        /\ onlineUsers # <<>>
        /\ \E s \in connected : <<s, sends[h].chatId>> \in rooms

----------------------------------------------------------------------------
(* REST *)

\* C8: a GET /messages/<a>/<b> request is answered with the persisted messages
\* whose chatId is getChatId(a, b).
C8_HistoryServed ==
    (lastResponse.method = "GET" /\ Len(lastResponse.path) = 3) =>
        /\ lastResponse.status = 200
        /\ lastResponse.body =
              SelectSeq(messages,
                  LAMBDA m : m.chatId = getChatId(lastResponse.path[2], lastResponse.path[3]))

\* C9: registration is idempotent per phone number: the store holds at most one
\* user per uid, and every completed request for a registered phone was answered 200
\* or 201 with the stored user.
C9_RegistrationIdempotent ==
    /\ \A i, j \in 1..Len(users) : users[i].uid = users[j].uid => i = j
    /\ \A r \in 1..MaxRegs :
          (regs[r].pc = "done" /\ FindOne(users, regs[r].uid) # 0) =>
              /\ regs[r].status \in {200, 201}
              /\ regs[r].user = users[FindOne(users, regs[r].uid)]

----------------------------------------------------------------------------
(* The AI turn *)

\* The user message of send_message handler h is persisted.
SendPersisted(h) == PlacesOf(sends[h].messageToSave.id, messages) # {}

\* The user message of POST /ask-ai handler q is persisted.
AskPersisted(q) == PlacesOf(asks[q].userMessage.id, messages) # {}

\* A message from ai_assistant constructed by the handler is persisted in the chat.
ReplyPersisted(aiMessage, chatId) ==
    \E i \in 1..Len(messages) :
        /\ messages[i] = aiMessage
        /\ messages[i].senderId = ai_assistant
        /\ messages[i].chatId = chatId

\* C11: a failure of the language-model call never loses the AI turn:
\* getGeminiResponse always yields a text (the fallback when the call fails), and for
\* every persisted user message to ai_assistant, from send_message or POST /ask-ai, a
\* message from ai_assistant is eventually persisted in the same chat, unless a store
\* operation of the handler is rejected.
C11_AiTurnNeverLost ==
    /\ [](\A h \in 1..MaxSends : sends[h].llm = "error" => sends[h].aiMessage.text = SorryText)
    /\ [](\A q \in 1..MaxAsks : asks[q].llm = "error" => asks[q].aiMessage.text = SorryText)
    /\ \A h \in 1..MaxSends :
          SendPersisted(h) ~>
              \/ ReplyPersisted(sends[h].aiMessage, sends[h].chatId)
              \/ sends[h].pc = "caught" /\ sends[h].failedAt \in {"find", "save_ai"}
    /\ \A q \in 1..MaxAsks :
          AskPersisted(q) ~>
              \/ ReplyPersisted(asks[q].aiMessage, asks[q].chatId)
              \/ asks[q].status = 500

\* The hosted call failed in a send_message turn whose user message is persisted, and
\* the fallback reply is persisted in the same chat.
C11_Witness ==
    \E h \in 1..MaxSends :
        /\ SendPersisted(h)
        /\ sends[h].llm = "error"
        /\ sends[h].pc = "done"
        /\ sends[h].aiMessage.text = SorryText
        /\ ReplyPersisted(sends[h].aiMessage, sends[h].chatId)

\* The last element of a history, as getGeminiResponse reads it.
LastOf(chatHistory) == chatHistory[Len(chatHistory)]

\* C12: each AI reply answers the message that triggered it: the last element of the
\* history a handler read is the user message this handler persisted, with role
\* 'user', so the prompt passed to the model is that message's text.
C12_ReplyAnswersOwnMessage ==
    /\ \A h \in 1..MaxSends :
          sends[h].chatHistoryForAI # <<>> =>
              /\ LastOf(sends[h].chatHistoryForAI).role = "user"
              /\ LastOf(sends[h].chatHistoryForAI).text = sends[h].text
    /\ \A q \in 1..MaxAsks :
          asks[q].chatHistoryForAI # <<>> =>
              /\ LastOf(asks[q].chatHistoryForAI).role = "user"
              /\ LastOf(asks[q].chatHistoryForAI).text = asks[q].prompt

----------------------------------------------------------------------------
(* The client's sidebar *)

\* C13: the client merges the online status into its user list: once the /users fetch
\* has resolved and an update_user_list event was received, in either order, every
\* user in the sidebar other than ai_assistant is shown online (socketId not null)
\* exactly when the user's uid is in the most recently received update_user_list, and
\* ai_assistant is always shown online.
C13_SidebarShowsOnlineStatus ==
    (usersFetch.pc = "resolved" /\ userListSeen > 0) =>
        \A i \in 1..Len(clientUsers) :
            IF clientUsers[i].uid = ai_assistant
            THEN clientUsers[i].socketId # null
            ELSE clientUsers[i].socketId # null
                     <=> clientUsers[i].uid \in onlineUserUids(userListHeard)

----------------------------------------------------------------------------
(* The client's chat view *)

============================================================================
